---- MODULE Spec2Model ----
(***************************************************************************)
(* State-machine model of the DNS collector (cinq_collector_dns):          *)
(*   - DNSCollector.process_zones    the two-level reconciliation          *)
(*   - DNSCollector.get_axfr_records / get_cloudflare_records  (adapters)  *)
(*   - DNSCollector.__cloudflare_list_zones / __cloudflare_list_zone_records*)
(*   - DNSCollector.run              the orchestrator                      *)
(*   - DNSZoneRecords.get (views.py) the paginated record browsing         *)
(*                                                                         *)
(* The SQLAlchemy session is modelled by two stores: `db`, what has been   *)
(* committed, and `session`, the unit of work the code reads and writes    *)
(* (committed rows plus staged changes).  commit copies session to db,     *)
(* rollback copies db to session.                                          *)
(*                                                                         *)
(* Text is modelled structurally: a DNS name is a sequence of labels, and  *)
(* get_resource_id (a hash of its sorted parts) is modelled collision-free *)
(* as the prefix together with the set of hashed parts.                    *)
(***************************************************************************)
EXTENDS Integers, Sequences, FiniteSets, TLC

VARIABLES
    db,               \* committed store: [zones, recs]
    session,          \* db.session: the working view (committed + staged)
    pc,               \* position in process_zones / run
    account,          \* process_zones argument `account`
    zones,            \* process_zones argument `zones` (the snapshot)
    existing_zones,   \* keys of existing_zones (line 96)
    zi,               \* index of the record-phase loop (line 140)
    existing_records, \* keys of existing_records (line 143)
    ops,              \* session writes staged during the current call, in order
    failed,           \* indices of snapshot zones whose record phase raised
    db0,              \* committed store when the current call started
    call,             \* number of the current process_zones call
    faults,           \* injected persistence faults so far
    page,             \* `page` of the running listing loop
    result,           \* `zones` / `records` accumulated by the listing loop
    requests,         \* page numbers requested by the running listing, in order
    responses,        \* responses received by the running listing, in order
    ret,              \* where the running listing returns to
    axfr_enabled,     \* self.axfr_enabled
    cloudflare_enabled, \* self.cloudflare_enabled
    zobjs,            \* get_cloudflare_records: the zones listed (line 239)
    zj,               \* get_cloudflare_records: index of the loop of line 239
    out,              \* get_cloudflare_records: the local `zones` (line 237)
    events,           \* what run() has done so far
    skipped,          \* names of the zones whose record fetch raised in this run
    empties,          \* names of the zones an adapter found without records
    run0,             \* committed store when run() started
    args,             \* DNSZoneRecords.get: the parsed request arguments
    view              \* DNSZoneRecords.get: the response payload

pzVars == <<account, zones, existing_zones, zi, existing_records, ops, failed,
            db0, call, faults>>

listVars == <<page, result, requests, responses, ret>>

cfVars == <<zobjs, zj, out>>

runVars == <<axfr_enabled, cloudflare_enabled, cfVars, events, skipped, empties,
             run0>>

viewVars == <<args, view>>

vars == <<db, session, pc, pzVars, listVars, runVars, viewVars>>

----------------------------------------------------------------------------
(* Bounds *)

MaxFaults == 1
MaxCalls == 2
MaxPages == 3

\* largest page number and largest count a browsing request asks for
MaxViewPage == 3

MaxViewCount == 2

----------------------------------------------------------------------------
(* Program constants and external helpers *)

AXFR_ACCOUNT_NAME == "DNS: AXFR"
CF_ACCOUNT_NAME == "DNS: CloudFlare"

\* cloud_inquisitor.utils.get_resource_id(prefix, *data): prefix + hash of the
\* sorted, flattened parts.  `data` is the positional part, `fields` the list
\* of 'key=value' strings; sorting makes the list a set.
get_resource_id(prefix, data, fields) ==
    [prefix |-> prefix, data |-> data, fields |-> fields]

\* '{}={}'.format(k, v)
KV(k, v) == <<k, v>>

EmptyStore == [zones |-> {}, recs |-> {}]

\* no browsing request has been served
NoView ==
    /\ args = <<>>
    /\ view = <<>>

\* no listing loop is running
NoListing ==
    /\ page = 1
    /\ result = <<>>
    /\ requests = <<>>
    /\ responses = <<>>
    /\ ret = "none"

\* run() is not modelled: no source is enabled
NoRun ==
    /\ axfr_enabled = FALSE
    /\ cloudflare_enabled = FALSE
    /\ zobjs = <<>>
    /\ zj = 1
    /\ out = <<>>
    /\ events = {}
    /\ skipped = {}
    /\ empties = {}
    /\ run0 = EmptyStore

\* DNSZone.get_all(account): the stored zones of one account
ZonesOf(st, acct) == {z \in st.zones : z.account_id = acct}

ZoneIds(st, acct) == {z.id : z \in ZonesOf(st, acct)}

\* DNSZone.get(zone_id)
GetZone(st, id) == CHOOSE z \in st.zones : z.id = id

\* zone.records: the records attached to a zone
RecordsOf(st, zid) == {r \in st.recs : r.zone = zid}

RecordIds(st, zid) == {r.id : r \in RecordsOf(st, zid)}

GetRecord(st, id) == CHOOSE r \in st.recs : r.id = id

Range(s) == {s[k] : k \in 1..Len(s)}

----------------------------------------------------------------------------
(* Zone-transfer adapter: normalisation of one transferred zone *)

TTL == "300"

\* rr['name'].derelativize(z.origin)
Derelativize(name, origin) == name \o origin

\* lines 213-220: one resource record of the transfer
AxfrRecord(zoneName, rr) ==
    LET record_name == Derelativize(rr.name, zoneName)
    IN  [id      |-> get_resource_id("axfrr", record_name,
                        {KV("name", rr.name), KV("ttl", <<rr.ttl>>),
                         KV("rdata", <<rr.rdata>>)}),
         zone_id |-> get_resource_id("axfrz", zoneName, {}),
         name    |-> record_name,
         value   |-> <<rr.rdata>>,
         type    |-> rr.rdtype]

\* lines 200-220: the zone dict built for one configured domain
AxfrZone(zoneName, rrs) ==
    [zone_id |-> get_resource_id("axfrz", zoneName, {}),
     name    |-> zoneName,
     source  |-> "AXFR",
     comment |-> "None",
     tags    |-> {},
     records |-> [k \in 1..Len(rrs) |-> AxfrRecord(zoneName, rrs[k])]]

\* KeepZone without the test for an empty record list
KeepZone_Always(zone) == TRUE

\* lines 222 and 260: `if len(zone['records']) > 0`
KeepZone(zone) == Len(zone.records) > 0

----------------------------------------------------------------------------
(* Paginated-API adapter: normalisation of one listed zone *)

\* CfRecord with the id taken from the name and the type alone
CfRecord_IdWithoutValue(zobj, record) ==
    [id      |-> get_resource_id("cfr", <<zobj.id>>,
                    {KV("name", record.name), KV("type", <<record.type>>)}),
     zone_id |-> get_resource_id("cfz", zobj.name, {}),
     name    |-> record.name,
     value   |-> record.value,
     type    |-> record.type]

\* lines 252-258: one merged record of the listing of zone zobj
CfRecord(zobj, record) ==
    [id      |-> get_resource_id("cfr", <<zobj.id>>,
                    {KV("name", record.name), KV("value", record.value),
                     KV("type", <<record.type>>)}),
     zone_id |-> get_resource_id("cfz", zobj.name, {}),
     name    |-> record.name,
     value   |-> record.value,
     type    |-> record.type]

\* lines 242-258: the zone dict built for one listed zone
CfZone(zobj, records) ==
    [zone_id |-> get_resource_id("cfz", zobj.name, {}),
     name    |-> zobj.name,
     source  |-> "CloudFlare",
     comment |-> "None",
     tags    |-> {},
     records |-> [k \in 1..Len(records) |-> CfRecord(zobj, records[k])]]

----------------------------------------------------------------------------
(* Storage collaborator: rows, create, update *)

\* DNSZone.create(zone_id, account_id, properties, tags), lines 107-112
CreateZone(data, acct) ==
    [id |-> data.zone_id, account_id |-> acct, name |-> data.name,
     source |-> data.source, comment |-> data.comment, tags |-> data.tags]

\* zone.update(data), line 100: did any field change
ZoneChanged(row, data) ==
    \/ row.name # data.name
    \/ row.source # data.source
    \/ row.comment # data.comment
    \/ row.tags # data.tags

\* zone.update(data), line 100: the row after the in-place update
UpdateZone(row, data) ==
    [row EXCEPT !.name = data.name, !.source = data.source,
                !.comment = data.comment, !.tags = data.tags]

\* DNSRecord.create(...) then existing_zone.add_record(record), lines 156-167
CreateRecord(data, acct, zid) ==
    [id |-> data.id, account_id |-> acct, zone |-> zid, name |-> data.name,
     value |-> data.value, type |-> data.type]

\* record.update(data), line 148: did any field change
RecordChanged(row, data) ==
    \/ row.name # data.name
    \/ row.value # data.value
    \/ row.type # data.type

\* record.update(data), line 148: the row after the in-place update
UpdateRecord(row, data) ==
    [row EXCEPT !.name = data.name, !.value = data.value, !.type = data.type]

----------------------------------------------------------------------------
(* process_zones, zone phase (lines 95-137) *)

Log(op, id) == <<op, id>>

\* ZoneStep with the update branch dropped: a stored zone is left as it is
ZoneStep_SkipExisting(acc, data, acct, ez) ==
    IF data.zone_id \in ez
    THEN acc
    ELSE [st  |-> [acc.st EXCEPT !.zones = @ \cup {CreateZone(data, acct)}],
          log |-> Append(acc.log, Log("create", data.zone_id))]

\* lines 98-117: the loop body for one snapshot zone
ZoneStep(acc, data, acct, ez) ==
    IF data.zone_id \in ez
    THEN LET zone == GetZone(acc.st, data.zone_id)
         IN  IF ZoneChanged(zone, data)
             THEN [st  |-> [acc.st EXCEPT !.zones =
                              (@ \ {zone}) \cup {UpdateZone(zone, data)}],
                   log |-> acc.log \o <<Log("update", data.zone_id),
                                         Log("add", data.zone_id)>>]
             ELSE acc
    ELSE [st  |-> [acc.st EXCEPT !.zones = @ \cup {CreateZone(data, acct)}],
          log |-> Append(acc.log, Log("create", data.zone_id))]

RECURSIVE UpdateZonesLoop(_, _, _, _, _, _)
\* lines 97-117: `for data in zones`, over zones[k..n]
UpdateZonesLoop(zs, acct, ez, k, n, acc) ==
    IF k > n THEN acc
    ELSE UpdateZonesLoop(zs, acct, ez, k + 1, n, ZoneStep(acc, zs[k], acct, ez))

\* line 124: ezk - zk
OrphanZones(ez, zs) == ez \ {zs[k].zone_id : k \in 1..Len(zs)}

\* the orders in which a set can be iterated
Orders(S) == {s \in [1..Cardinality(S) -> S] : Range(s) = S}

\* the list a relationship is read as
ListOf(S) == CHOOSE s \in Orders(S) : TRUE

RECURSIVE DeleteRecordsLoop(_, _, _)
\* lines 128-129 / 173-175: db.session.delete(record.resource) for each id
DeleteRecordsLoop(ids, k, acc) ==
    IF k > Len(ids) THEN acc
    ELSE DeleteRecordsLoop(ids, k + 1,
            [st  |-> [acc.st EXCEPT !.recs = {r \in @ : r.id # ids[k]}],
             log |-> Append(acc.log, Log("delete", ids[k]))])

\* DeleteZoneStep without the loop over zone.records
DeleteZoneStep_NoCascade(acc, zid) ==
    [st  |-> [acc.st EXCEPT !.zones = {z \in @ : z.id # zid}],
     log |-> Append(acc.log, Log("delete", zid))]

\* lines 125-131: one orphaned zone: its records first, then the zone
DeleteZoneStep(acc, zid) ==
    LET a == DeleteRecordsLoop(ListOf(RecordIds(acc.st, zid)), 1, acc)
    IN  [st  |-> [a.st EXCEPT !.zones = {z \in @ : z.id # zid}],
         log |-> Append(a.log, Log("delete", zid))]

RECURSIVE DeleteZonesLoop(_, _, _, _)
\* lines 124-135: `for resource_id in ezk - zk`, over order[k..n]
DeleteZonesLoop(order, k, n, acc) ==
    IF k > n THEN acc
    ELSE DeleteZonesLoop(order, k + 1, n, DeleteZoneStep(acc, order[k]))

\* the record phase starts at the first snapshot zone, or there is none
EnterRecordPhase(zs) == IF Len(zs) > 0 THEN "update_records" ELSE "done"

\* lines 95-119: load existing_zones, create/update every snapshot zone, commit
PZ_UpdateZones ==
    /\ pc = "update_zones"
    /\ LET ez == ZoneIds(session, account)
           a  == UpdateZonesLoop(zones, account, ez, 1, Len(zones),
                                 [st |-> session, log |-> ops])
       IN  /\ existing_zones' = ez
           /\ session' = a.st
           /\ ops' = a.log
           /\ db' = a.st
    /\ pc' = "delete_zones"
    /\ UNCHANGED <<viewVars, account, zones, zi, existing_records, failed, db0, call, faults,
                   listVars, runVars>>

\* lines 95-119 when the store raises after n zones were staged (n = Len(zones):
\* the commit of line 119 fails); nothing is rolled back, the exception leaves
\* process_zones
PZ_UpdateZonesFault ==
    /\ pc = "update_zones"
    /\ faults < MaxFaults
    /\ \E n \in 0..Len(zones) :
         LET ez == ZoneIds(session, account)
             a  == UpdateZonesLoop(zones, account, ez, 1, n,
                                   [st |-> session, log |-> ops])
         IN  /\ existing_zones' = ez
             /\ session' = a.st
             /\ ops' = a.log
    /\ pc' = "raised"
    /\ faults' = faults + 1
    /\ UNCHANGED <<viewVars, db, account, zones, zi, existing_records, failed, db0, call,
                   listVars, runVars>>

\* lines 121-136: delete every stored zone absent from the snapshot, commit
PZ_DeleteZones ==
    /\ pc = "delete_zones"
    /\ \E order \in Orders(OrphanZones(existing_zones, zones)) :
         LET a == DeleteZonesLoop(order, 1, Len(order),
                                  [st |-> session, log |-> ops])
         IN  /\ session' = a.st
             /\ ops' = a.log
             /\ db' = a.st
    /\ pc' = EnterRecordPhase(zones)
    /\ zi' = 1
    /\ UNCHANGED <<viewVars, account, zones, existing_zones, existing_records, failed,
                   db0, call, faults,
                   listVars, runVars>>

\* lines 121-136 when the store raises after n orphans were staged
PZ_DeleteZonesFault ==
    /\ pc = "delete_zones"
    /\ faults < MaxFaults
    /\ \E order \in Orders(OrphanZones(existing_zones, zones)) :
       \E n \in 0..Len(order) :
         LET a == DeleteZonesLoop(order, 1, n, [st |-> session, log |-> ops])
         IN  /\ session' = a.st
             /\ ops' = a.log
    /\ pc' = "raised"
    /\ faults' = faults + 1
    /\ UNCHANGED <<viewVars, db, account, zones, existing_zones, zi, existing_records,
                   failed, db0, call,
                   listVars, runVars>>

----------------------------------------------------------------------------
(* process_zones, record phase (lines 139-188) *)

\* lines 146-167: the loop body for one snapshot record.  `zone` is the
\* snapshot dict of line 140, so `zone.name` in the log call of lines 149-153
\* raises AttributeError as soon as record.update reports a change: the
\* update has been applied in place, the session.add of line 154 is not reached.
RecordStep(acc, data, acct, zid, er) ==
    IF acc.raised THEN acc
    ELSE IF data.id \in er
    THEN LET record == GetRecord(acc.st, data.id)
         IN  IF RecordChanged(record, data)
             THEN [st     |-> [acc.st EXCEPT !.recs =
                                 (@ \ {record}) \cup {UpdateRecord(record, data)}],
                   log    |-> Append(acc.log, Log("update", data.id)),
                   raised |-> TRUE]
             ELSE acc
    ELSE [st     |-> [acc.st EXCEPT !.recs = @ \cup {CreateRecord(data, acct, zid)}],
          log    |-> Append(acc.log, Log("create", data.id)),
          raised |-> FALSE]

RECURSIVE UpdateRecordsLoop(_, _, _, _, _, _, _)
\* lines 145-167: `for data in zone['records']`, over records[k..n]
UpdateRecordsLoop(recs, acct, zid, er, k, n, acc) ==
    IF k > n THEN acc
    ELSE UpdateRecordsLoop(recs, acct, zid, er, k + 1, n,
                           RecordStep(acc, recs[k], acct, zid, er))

\* line 173: erk - rk
OrphanRecords(er, recs) == er \ {recs[k].id : k \in 1..Len(recs)}

\* line 140: the loop moves to the next snapshot zone, or process_zones returns
NextZone(i, zs) == IF i < Len(zs) THEN "update_records" ELSE "done"

\* lines 141-168: create/update the records of snapshot zone zi, commit;
\* an exception goes to the handler of line 182
PZ_UpdateRecords ==
    /\ pc = "update_records"
    /\ LET zone == zones[zi]
           er   == RecordIds(session, zone.zone_id)
           a    == UpdateRecordsLoop(zone.records, account, zone.zone_id, er, 1,
                       Len(zone.records),
                       [st |-> session, log |-> ops, raised |-> FALSE])
       IN  /\ existing_records' = er
           /\ session' = a.st
           /\ ops' = a.log
           /\ IF a.raised
              THEN pc' = "except" /\ db' = db
              ELSE pc' = "delete_records" /\ db' = a.st
    /\ UNCHANGED <<viewVars, account, zones, existing_zones, zi, failed, db0, call, faults,
                   listVars, runVars>>

\* lines 141-168 when the store raises after n records were handled
\* (n = Len(records): the commit of line 168 fails)
PZ_UpdateRecordsFault ==
    /\ pc = "update_records"
    /\ faults < MaxFaults
    /\ \E n \in 0..Len(zones[zi].records) :
         LET zone == zones[zi]
             er   == RecordIds(session, zone.zone_id)
             a    == UpdateRecordsLoop(zone.records, account, zone.zone_id, er,
                         1, n, [st |-> session, log |-> ops, raised |-> FALSE])
         IN  /\ existing_records' = er
             /\ session' = a.st
             /\ ops' = a.log
    /\ pc' = "except"
    /\ faults' = faults + 1
    /\ UNCHANGED <<viewVars, db, account, zones, existing_zones, zi, failed, db0, call,
                   listVars, runVars>>

\* lines 170-181: delete the stored records absent from the snapshot zone, commit
PZ_DeleteRecords ==
    /\ pc = "delete_records"
    /\ \E order \in Orders(OrphanRecords(existing_records, zones[zi].records)) :
         LET a == DeleteRecordsLoop(order, 1, [st |-> session, log |-> ops])
         IN  /\ session' = a.st
             /\ ops' = a.log
             /\ db' = a.st
    /\ pc' = NextZone(zi, zones)
    /\ zi' = zi + 1
    /\ UNCHANGED <<viewVars, account, zones, existing_zones, existing_records, failed,
                   db0, call, faults,
                   listVars, runVars>>

\* lines 170-181 when the store raises after some deletions were staged
PZ_DeleteRecordsFault ==
    /\ pc = "delete_records"
    /\ faults < MaxFaults
    /\ \E order \in Orders(OrphanRecords(existing_records, zones[zi].records)) :
       \E n \in 0..Len(order) :
         LET a == DeleteRecordsLoop(SubSeq(order, 1, n), 1,
                                    [st |-> session, log |-> ops])
         IN  /\ session' = a.st
             /\ ops' = a.log
    /\ pc' = "except"
    /\ faults' = faults + 1
    /\ UNCHANGED <<viewVars, db, account, zones, existing_zones, zi, existing_records,
                   failed, db0, call,
                   listVars, runVars>>

\* PZ_Except with the exception raised again after the rollback
PZ_Except_Reraise ==
    /\ pc = "except"
    /\ session' = db
    /\ failed' = failed \cup {zi}
    /\ pc' = "raised"
    /\ UNCHANGED <<viewVars, db, account, zones, existing_zones, zi, existing_records, ops,
                   db0, call, faults, listVars, runVars>>

\* lines 182-187: log, db.session.rollback(), continue with the next zone
PZ_Except ==
    /\ pc = "except"
    /\ session' = db
    /\ failed' = failed \cup {zi}
    /\ pc' = NextZone(zi, zones)
    /\ zi' = zi + 1
    /\ UNCHANGED <<viewVars, db, account, zones, existing_zones, existing_records, ops,
                   db0, call, faults,
                   listVars, runVars>>

----------------------------------------------------------------------------
(* Paginated API: __cloudflare_list_zones and __cloudflare_list_zone_records *)

\* the record contents of the universe, listed in the order Python's string
\* comparison gives them ('.' sorts before '0')
ContentOrder == <<"1.1.1.1", "10.0.0.1", "2.2.2.2", "::1">>

Contents == Range(ContentOrder)

Rank(c) == CHOOSE i \in 1..Len(ContentOrder) : ContentOrder[i] = c

\* str.__lt__ on two contents
LexLess(a, b) == Rank(a) < Rank(b)

\* place x after the elements of the sorted list s that are not greater
Insert(s, x) ==
    LET n == Cardinality({i \in 1..Len(s) : ~LexLess(x, s[i])})
    IN  SubSeq(s, 1, n) \o <<x>> \o SubSeq(s, n + 1, Len(s))

RECURSIVE sorted(_)
\* sorted(list): a stable sort in ascending order
sorted(s) == IF s = <<>> THEN <<>> ELSE Insert(sorted(SubSeq(s, 1, Len(s) - 1)), s[Len(s)])

\* MergeRow with the re-sort of line 351 left out
MergeRow_Unsorted(records, record) ==
    IF \E i \in 1..Len(records) : records[i].name = record.name
    THEN LET i == CHOOSE i \in 1..Len(records) : records[i].name = record.name
         IN  [records EXCEPT ![i].value = @ \o <<record.content>>]
    ELSE Append(records, [name  |-> record.name,
                          value |-> sorted(<<record.content>>),
                          type  |-> record.type])

\* lines 350-357: merge one raw row into `records` (a dict keyed by name,
\* kept here as the list of its values in insertion order)
MergeRow(records, record) ==
    IF \E i \in 1..Len(records) : records[i].name = record.name
    THEN LET i == CHOOSE i \in 1..Len(records) : records[i].name = record.name
         IN  [records EXCEPT ![i].value = sorted(@ \o <<record.content>>)]
    ELSE Append(records, [name  |-> record.name,
                          value |-> sorted(<<record.content>>),
                          type  |-> record.type])

RECURSIVE MergeRows(_, _, _)
\* lines 349-357: `for record in response['result']`, over rows[k..]
MergeRows(records, rows, k) ==
    IF k > Len(rows) THEN records
    ELSE MergeRows(MergeRow(records, rows[k]), rows, k + 1)

\* LastPage stopping one page early
LastPage_OneEarly(p, info) ==
    \/ "total_pages" \notin DOMAIN info
    \/ p + 1 >= info.total_pages

\* lines 314 / 344: 'total_pages' not in info or page == info['total_pages']
LastPage(p, info) ==
    \/ "total_pages" \notin DOMAIN info
    \/ p = info.total_pages

\* where a CloudFlareError raised by a request of the running listing lands
RaiseTarget(r) ==
    IF r = "cf_zones" THEN "cf_raised"      \* leaves get_cloudflare_records
    ELSE IF r = "cf_records" THEN "cf_skip" \* caught at line 262
    ELSE "list_raised"

\* lines 309-319: one turn of the while loop of __cloudflare_list_zones
ListZonesPage(response) ==
    /\ pc = "list_zones"
    /\ Len(requests) < MaxPages
    /\ requests' = Append(requests, page)
    /\ responses' = Append(responses, response)
    /\ result' = result \o response.result
    /\ IF LastPage(page, response.result_info)
       THEN page' = page /\ pc' = ret
       ELSE page' = page + 1 /\ pc' = pc
    /\ UNCHANGED ret

\* lines 338-357: one turn of the while loop of __cloudflare_list_zone_records
ListRecordsPage(response) ==
    /\ pc = "list_records"
    /\ Len(requests) < MaxPages
    /\ requests' = Append(requests, page)
    /\ responses' = Append(responses, response)
    /\ result' = MergeRows(result, response.result, 1)
    /\ IF LastPage(page, response.result_info)
       THEN page' = page /\ pc' = ret
       ELSE page' = page + 1 /\ pc' = pc
    /\ UNCHANGED ret

\* lines 290-292: the request is answered with a status other than 200 and
\* __cloudflare_request raises CloudFlareError out of the listing
ListRequestFails ==
    /\ pc \in {"list_zones", "list_records"}
    /\ Len(requests) < MaxPages
    /\ requests' = Append(requests, page)
    /\ pc' = RaiseTarget(ret)
    /\ UNCHANGED <<viewVars, page, result, responses, ret>>

----------------------------------------------------------------------------
(* Universe of the listing specification *)

\* result_info with and without total_pages
Infos == {[per_page |-> 100]} \cup
         {[per_page |-> 100, total_pages |-> n] : n \in 0..MaxPages}

\* raw dns_records rows
RawRows ==
    {[name |-> <<"www">>, content |-> c, type |-> "A"] : c \in {"2.2.2.2", "10.0.0.1"}}
    \cup {[name |-> <<"mail">>, content |-> "1.1.1.1", type |-> "MX"]}
    \cup {[name |-> <<"www">>, content |-> "::1", type |-> "AAAA"]}

\* raw zone rows
RawZones == {[id |-> "cf-c", name |-> <<"c", "com">>],
             [id |-> "cf-d", name |-> <<"d", "com">>]}

\* result pages: empty, one row, or two different rows of one name, the
\* first of them sorting after the second or differing from it in type
RecordPages ==
    {<<>>} \cup {<<a>> : a \in RawRows}
           \cup {<<p[1], p[2]>> :
                   p \in {q \in RawRows \X RawRows :
                            /\ q[1].name = q[2].name
                            /\ q[1].content = "2.2.2.2"
                            /\ q[1] # q[2]}}

ZonePages ==
    {<<>>} \cup {<<a>> : a \in RawZones}
           \cup {<<[id |-> "cf-c", name |-> <<"c", "com">>],
                    [id |-> "cf-d", name |-> <<"d", "com">>]>>}

ZoneResponses == [result : ZonePages, result_info : Infos]

RecordResponses == [result : RecordPages, result_info : Infos]

\* a listing has just been called
InitList ==
    /\ \/ pc = "list_zones" /\ ret = "zones_listed"
       \/ pc = "list_records" /\ ret = "records_listed"
    /\ page = 1
    /\ result = <<>>
    /\ requests = <<>>
    /\ responses = <<>>
    /\ db = EmptyStore
    /\ session = EmptyStore
    /\ db0 = EmptyStore
    /\ zones = <<>>
    /\ account = CF_ACCOUNT_NAME
    /\ existing_zones = {}
    /\ existing_records = {}
    /\ zi = 1
    /\ ops = <<>>
    /\ failed = {}
    /\ call = 1
    /\ faults = 0
    /\ NoView
    /\ NoRun

L_ListZonesPage ==
    /\ \E response \in ZoneResponses : ListZonesPage(response)
    /\ UNCHANGED <<viewVars, db, session, pzVars, runVars>>

L_ListRecordsPage ==
    /\ \E response \in RecordResponses : ListRecordsPage(response)
    /\ UNCHANGED <<viewVars, db, session, pzVars, runVars>>

L_RequestFails ==
    /\ ListRequestFails
    /\ UNCHANGED <<viewVars, db, session, pzVars, runVars>>

NextList == L_ListZonesPage \/ L_ListRecordsPage \/ L_RequestFails

SpecList == InitList /\ [][NextList]_vars

----------------------------------------------------------------------------
(* Universe of the reconciliation specification *)

ZoneA == <<"a", "com">>
ZoneB == <<"b", "com">>

\* self.axfr_domains
axfr_domains == <<ZoneA, ZoneB>>

HostOrder == <<"www", "mail", "ftp">>

\* the relative names a zone of the universe may hold
Hosts(zoneName) == IF zoneName = ZoneA THEN {"www", "mail", "ftp"} ELSE {"www"}

\* NS and CNAME rdata have the same text (a target name) and differ in rdtype
Target == "t.example."
RdTypes == {"NS", "CNAME"}

\* what z.iterate_rdatas() yields for a choice f: host -> "absent" or rdtype
TransferOf(zoneName, f) ==
    LET hs == SelectSeq(HostOrder,
                        LAMBDA h : h \in Hosts(zoneName) /\ f[h] # "absent")
    IN  [k \in 1..Len(hs) |->
            [name |-> <<hs[k]>>, ttl |-> TTL, rdata |-> Target, rdtype |-> f[hs[k]]]]

Transfers(zoneName, types) ==
    {TransferOf(zoneName, f) : f \in [Hosts(zoneName) -> types \cup {"absent"}]}

\* the rows a reconciled snapshot leaves in the store
StoreOf(zs, acct) ==
    [zones |-> {CreateZone(zs[k], acct) : k \in 1..Len(zs)},
     recs  |-> UNION {{CreateRecord(zs[k].records[j], acct, zs[k].zone_id) :
                          j \in 1..Len(zs[k].records)} : k \in 1..Len(zs)}]

StoreUnion(a, b) == [zones |-> a.zones \cup b.zones, recs |-> a.recs \cup b.recs]

\* a zone and a record of the other account, named like ZoneA
OtherAccountStore ==
    StoreOf(<<CfZone([id |-> "cf-a", name |-> ZoneA],
                     <<[name |-> <<"www">> \o ZoneA, value |-> <<"2.2.2.2">>,
                        type |-> "A"]>>)>>,
            CF_ACCOUNT_NAME)

\* lists of zone dicts: for each domain nothing or one of `choices`
ZoneLists(choicesA, choicesB) ==
    {<<>>} \cup {<<a>> : a \in choicesA} \cup {<<b>> : b \in choicesB}
           \cup {<<a, b>> : a \in choicesA, b \in choicesB}

\* what earlier runs may have stored for the zone-transfer account
StoredSnapshots ==
    ZoneLists({AxfrZone(ZoneA, t) : t \in Transfers(ZoneA, {"NS"})},
              {AxfrZone(ZoneB, t) : t \in Transfers(ZoneB, {"NS"})})

Comments == {"None", "moved"}

\* the snapshots handed to process_zones: every zone has at least one record
Snapshots ==
    ZoneLists({AxfrZone(ZoneA, t) : t \in Transfers(ZoneA, RdTypes) \ {<<>>}},
              {[AxfrZone(ZoneB, t) EXCEPT !.comment = c] :
                  t \in Transfers(ZoneB, RdTypes) \ {<<>>}, c \in Comments})

\* process_zones(snapshot, axfr_account) is about to run on a populated store
InitPZ ==
    /\ \E prev \in StoredSnapshots, other \in {EmptyStore, OtherAccountStore} :
          db = StoreUnion(StoreOf(prev, AXFR_ACCOUNT_NAME), other)
    /\ session = db
    /\ db0 = db
    /\ zones \in Snapshots
    /\ account = AXFR_ACCOUNT_NAME
    /\ pc = "update_zones"
    /\ existing_zones = {}
    /\ existing_records = {}
    /\ zi = 1
    /\ ops = <<>>
    /\ failed = {}
    /\ call = 1
    /\ faults = 0
    /\ NoListing
    /\ NoView
    /\ NoRun

\* the caller runs process_zones again with the same snapshot and account
PZ_CallAgain ==
    /\ pc = "done"
    /\ call < MaxCalls
    /\ call' = call + 1
    /\ pc' = "update_zones"
    /\ db0' = db
    /\ ops' = <<>>
    /\ failed' = {}
    /\ zi' = 1
    /\ existing_zones' = {}
    /\ existing_records' = {}
    /\ UNCHANGED <<viewVars, db, session, account, zones, faults,
                   listVars, runVars>>

ProcessZones ==
    \/ PZ_UpdateZones
    \/ PZ_UpdateZonesFault
    \/ PZ_DeleteZones
    \/ PZ_DeleteZonesFault
    \/ PZ_UpdateRecords
    \/ PZ_UpdateRecordsFault
    \/ PZ_DeleteRecords
    \/ PZ_DeleteRecordsFault
    \/ PZ_Except

NextPZ == ProcessZones \/ PZ_CallAgain

SpecPZ == InitPZ /\ [][NextPZ]_vars

----------------------------------------------------------------------------
(* run(), get_axfr_records and get_cloudflare_records *)

\* lines 197-229 when every transfer succeeds: one zone dict per configured
\* domain, the zones without records left out
AxfrSnapshot(ts) ==
    SelectSeq([k \in 1..Len(axfr_domains) |-> AxfrZone(axfr_domains[k], ts[k])],
              KeepZone)

\* process_zones(zs, acct) is called
CallProcessZones(zs, acct) ==
    /\ zones' = zs
    /\ account' = acct
    /\ pc' = "update_zones"
    /\ db0' = db
    /\ ops' = <<>>
    /\ failed' = {}
    /\ zi' = 1
    /\ existing_zones' = {}
    /\ existing_records' = {}

\* the locals of a finished process_zones call are dropped
DropLocals ==
    /\ zones' = <<>>
    /\ db0' = db
    /\ ops' = <<>>
    /\ failed' = {}
    /\ zi' = 1
    /\ existing_zones' = {}
    /\ existing_records' = {}

\* the transfers of the run universe: at most the record of www
RunTransfers(zoneName) ==
    {t \in Transfers(zoneName, RdTypes) : \A k \in 1..Len(t) : t[k].name = <<"www">>}

\* lines 80-82: get_axfr_records returns and process_zones is called with it
Run_Axfr ==
    /\ pc = "run_axfr"
    /\ axfr_enabled
    /\ \E ts \in [1..Len(axfr_domains) -> UNION {RunTransfers(axfr_domains[k]) :
                                                   k \in 1..Len(axfr_domains)}] :
          /\ \A k \in 1..Len(axfr_domains) : ts[k] \in RunTransfers(axfr_domains[k])
          /\ CallProcessZones(AxfrSnapshot(ts), AXFR_ACCOUNT_NAME)
          /\ empties' = empties \cup
                {get_resource_id("axfrz", axfr_domains[k], {}) :
                    k \in {n \in 1..Len(axfr_domains) : ts[n] = <<>>}}
    /\ events' = events \cup {"axfr_pz"}
    /\ UNCHANGED <<viewVars, db, session, call, faults, listVars, axfr_enabled,
                   cloudflare_enabled, cfVars, skipped, run0>>

\* Run_AxfrRaises with the exception leaving run() instead of being caught
Run_AxfrRaises_Propagates ==
    /\ pc = "run_axfr"
    /\ axfr_enabled
    /\ pc' = "run_raised"
    /\ events' = events \cup {"axfr_fetch_raised"}
    /\ UNCHANGED <<viewVars, db, session, pzVars, listVars, axfr_enabled, cloudflare_enabled,
                   cfVars, skipped, empties, run0>>

\* Run_AxfrRaises with the zones transferred before the failure handed on
Run_AxfrRaises_Partial ==
    /\ pc = "run_axfr"
    /\ axfr_enabled
    /\ \E ts \in [1..Len(axfr_domains) -> UNION {RunTransfers(axfr_domains[k]) :
                                                   k \in 1..Len(axfr_domains)}] :
          /\ \A k \in 1..Len(axfr_domains) : ts[k] \in RunTransfers(axfr_domains[k])
          /\ CallProcessZones(IF AxfrSnapshot(ts) = <<>> THEN <<>>
                              ELSE <<AxfrSnapshot(ts)[1]>>, AXFR_ACCOUNT_NAME)
    /\ events' = events \cup {"axfr_fetch_raised", "axfr_pz"}
    /\ UNCHANGED <<viewVars, db, session, call, faults, listVars, axfr_enabled,
                   cloudflare_enabled, cfVars, skipped, empties, run0>>

\* lines 80-84: the transfer of some configured domain raises (lines 225-227,
\* retries exhausted); the zones transferred so far are lost with the local
\* list, run() logs and goes on
Run_AxfrRaises ==
    /\ pc = "run_axfr"
    /\ axfr_enabled
    /\ pc' = "run_cf"
    /\ events' = events \cup {"axfr_fetch_raised"}
    /\ UNCHANGED <<viewVars, db, session, pzVars, listVars, axfr_enabled, cloudflare_enabled,
                   cfVars, skipped, empties, run0>>

\* line 80: the zone-transfer source is not enabled
Run_AxfrSkip ==
    /\ pc = "run_axfr"
    /\ ~axfr_enabled
    /\ pc' = "run_cf"
    /\ UNCHANGED <<viewVars, db, session, pzVars, listVars, runVars>>

\* the call committed nothing and zone creations or updates are staged: the
\* zone phase raised before the commit of line 119
ZoneWritesPending ==
    /\ db = db0
    /\ \E k \in 1..Len(ops) : ops[k][1] \in {"create", "update"}
    /\ ZonesOf(session, account) # ZonesOf(db, account)

\* lines 82-84: process_zones returned, or raised and run() caught it
Run_AxfrReturn ==
    /\ pc \in {"done", "raised"}
    /\ account = AXFR_ACCOUNT_NAME
    /\ pc' = "run_cf"
    /\ events' = events \cup {IF pc = "raised" THEN "axfr_pz_raised"
                                               ELSE "axfr_pz_returned"}
                         \cup (IF pc = "raised" /\ ZoneWritesPending
                               THEN {"axfr_zone_writes_pending"} ELSE {})
    /\ DropLocals
    /\ UNCHANGED <<viewVars, db, session, account, call, faults, listVars, axfr_enabled,
                   cloudflare_enabled, cfVars, skipped, empties, run0>>

\* a listing is called with return address r
CallListing(target, r) ==
    /\ pc' = target
    /\ ret' = r
    /\ page' = 1
    /\ result' = <<>>
    /\ requests' = <<>>
    /\ responses' = <<>>

\* lines 86-88, 237-239: get_cloudflare_records starts by listing the zones
Run_Cf ==
    /\ pc = "run_cf"
    /\ cloudflare_enabled
    /\ CallListing("list_zones", "cf_zones")
    /\ zobjs' = <<>>
    /\ zj' = 1
    /\ out' = <<>>
    /\ events' = events \cup {"cf_fetch"}
    /\ UNCHANGED <<viewVars, db, session, pzVars, axfr_enabled, cloudflare_enabled, skipped,
                   empties, run0>>

\* line 86: the paginated-API source is not enabled
Run_CfSkip ==
    /\ pc = "run_cf"
    /\ ~cloudflare_enabled
    /\ pc' = "run_end"
    /\ UNCHANGED <<viewVars, db, session, pzVars, listVars, runVars>>

\* the zones the API of the run universe has
ZobjC == [id |-> "cf-c", name |-> <<"c", "com">>]
ZobjD == [id |-> "cf-d", name |-> <<"d", "com">>]

\* what GET /zones?page=p may answer
RunZoneResponses(p) ==
    IF p = 1
    THEN {[result |-> <<ZobjC, ZobjD>>, result_info |-> [per_page |-> 100]],
          [result |-> <<ZobjC>>, result_info |-> [per_page |-> 100, total_pages |-> 1]],
          [result |-> <<>>, result_info |-> [per_page |-> 100, total_pages |-> 1]],
          [result |-> <<ZobjC>>, result_info |-> [per_page |-> 100, total_pages |-> 2]]}
    ELSE IF p = 2
    THEN {[result |-> <<ZobjD>>, result_info |-> [per_page |-> 100, total_pages |-> 2]]}
    ELSE {}

\* the raw rows of www in a zone
RunRow(zobj, c) == [name |-> <<"www">> \o zobj.name, content |-> c, type |-> "A"]

\* what GET /zones/{id}/dns_records?page=p may answer
RunRecordResponses(zobj, p) ==
    IF p = 1
    THEN {[result |-> <<>>, result_info |-> [per_page |-> 100]],
          [result |-> <<RunRow(zobj, "2.2.2.2")>>,
           result_info |-> [per_page |-> 100, total_pages |-> 1]],
          [result |-> <<RunRow(zobj, "2.2.2.2")>>,
           result_info |-> [per_page |-> 100, total_pages |-> 2]]}
    ELSE IF p = 2
    THEN {[result |-> <<RunRow(zobj, "10.0.0.1")>>,
           result_info |-> [per_page |-> 100, total_pages |-> 2]]}
    ELSE {}

\* lines 309-319 inside get_cloudflare_records
CF_ListZonesPage ==
    /\ \E response \in RunZoneResponses(page) : ListZonesPage(response)
    /\ UNCHANGED <<viewVars, db, session, pzVars, runVars>>

\* lines 338-357 inside get_cloudflare_records
CF_ListRecordsPage ==
    /\ pc = "list_records"
    /\ \E response \in RunRecordResponses(zobjs[zj], page) : ListRecordsPage(response)
    /\ UNCHANGED <<viewVars, db, session, pzVars, runVars>>

\* lines 290-292 inside get_cloudflare_records
CF_RequestFails ==
    /\ ListRequestFails
    /\ UNCHANGED <<viewVars, db, session, pzVars, runVars>>

\* line 239 / 265: the loop takes listed zone j, or the zones are returned
StartZobj(j, list) ==
    IF j <= Len(list)
    THEN CallListing("list_records", "cf_records")
    ELSE CallListing("cf_return", "none")

\* line 239: __cloudflare_list_zones has returned
CF_ZonesListed ==
    /\ pc = "cf_zones"
    /\ zobjs' = result
    /\ zj' = 1
    /\ StartZobj(1, result)
    /\ UNCHANGED <<viewVars, db, session, pzVars, out, axfr_enabled, cloudflare_enabled,
                   events, skipped, empties, run0>>

\* lines 242-261: the records of listed zone zj are in; the zone is appended
\* unless it has none
CF_AppendZone ==
    /\ pc = "cf_records"
    /\ LET zone == CfZone(zobjs[zj], result)
       IN  /\ out' = IF KeepZone(zone) THEN Append(out, zone) ELSE out
           /\ empties' = IF Len(zone.records) = 0
                         THEN empties \cup {zone.zone_id} ELSE empties
    /\ zj' = zj + 1
    /\ StartZobj(zj + 1, zobjs)
    /\ UNCHANGED <<viewVars, db, session, pzVars, zobjs, axfr_enabled, cloudflare_enabled,
                   events, skipped, run0>>

\* lines 262-263: the record listing of zone zj raised CloudFlareError; the
\* zone is logged and left out
CF_SkipZone ==
    /\ pc = "cf_skip"
    /\ skipped' = skipped \cup {zobjs[zj].name}
    /\ zj' = zj + 1
    /\ StartZobj(zj + 1, zobjs)
    /\ UNCHANGED <<viewVars, db, session, pzVars, zobjs, out, axfr_enabled,
                   cloudflare_enabled, events, empties, run0>>

\* lines 265 and 88: get_cloudflare_records returns, process_zones is called
CF_Return ==
    /\ pc = "cf_return"
    /\ CallProcessZones(out, CF_ACCOUNT_NAME)
    /\ zobjs' = <<>>
    /\ zj' = 1
    /\ out' = <<>>
    /\ events' = events \cup {"cf_pz"}
    /\ UNCHANGED <<viewVars, db, session, call, faults, listVars, axfr_enabled,
                   cloudflare_enabled, skipped, empties, run0>>

\* lines 89-90: the zone listing raised out of get_cloudflare_records
Run_CfRaised ==
    /\ pc = "cf_raised"
    /\ pc' = "run_end"
    /\ events' = events \cup {"cf_fetch_raised"}
    /\ UNCHANGED <<viewVars, db, session, pzVars, listVars, axfr_enabled, cloudflare_enabled,
                   cfVars, skipped, empties, run0>>

\* lines 88-90: process_zones returned, or raised and run() caught it
Run_CfReturn ==
    /\ pc \in {"done", "raised"}
    /\ account = CF_ACCOUNT_NAME
    /\ pc' = "run_end"
    /\ events' = events \cup {IF pc = "raised" THEN "cf_pz_raised"
                                               ELSE "cf_pz_returned"}
    /\ DropLocals
    /\ UNCHANGED <<viewVars, db, session, account, call, faults, listVars, axfr_enabled,
                   cloudflare_enabled, cfVars, skipped, empties, run0>>

\* what earlier runs may have stored for the two accounts
RunStoredAxfr ==
    ZoneLists({AxfrZone(ZoneA, t) : t \in RunTransfers(ZoneA) \cap Transfers(ZoneA, {"NS"})},
              {AxfrZone(ZoneB, t) : t \in RunTransfers(ZoneB) \cap Transfers(ZoneB, {"NS"})})

RunStoredCf ==
    LET zc == CfZone(ZobjC, MergeRows(<<>>, <<RunRow(ZobjC, "2.2.2.2")>>, 1))
        zd == CfZone(ZobjD, MergeRows(<<>>, <<RunRow(ZobjD, "2.2.2.2")>>, 1))
    IN  {<<>>, <<zc>>, <<zc, zd>>}

\* run() is about to start on a store left by earlier runs
Init ==
    /\ \E pa \in RunStoredAxfr, pcf \in RunStoredCf :
          db = StoreUnion(StoreOf(pa, AXFR_ACCOUNT_NAME), StoreOf(pcf, CF_ACCOUNT_NAME))
    /\ session = db
    /\ run0 = db
    /\ db0 = db
    /\ pc = "run_axfr"
    /\ axfr_enabled \in BOOLEAN
    /\ cloudflare_enabled \in BOOLEAN
    /\ account = AXFR_ACCOUNT_NAME
    /\ zones = <<>>
    /\ existing_zones = {}
    /\ existing_records = {}
    /\ zi = 1
    /\ ops = <<>>
    /\ failed = {}
    /\ call = 1
    /\ faults = 0
    /\ NoListing
    /\ NoView
    /\ zobjs = <<>>
    /\ zj = 1
    /\ out = <<>>
    /\ events = {}
    /\ skipped = {}
    /\ empties = {}

Next ==
    \/ Run_Axfr
    \/ Run_AxfrRaises
    \/ Run_AxfrSkip
    \/ Run_AxfrReturn
    \/ Run_Cf
    \/ Run_CfSkip
    \/ CF_ListZonesPage
    \/ CF_ListRecordsPage
    \/ CF_RequestFails
    \/ CF_ZonesListed
    \/ CF_AppendZone
    \/ CF_SkipZone
    \/ CF_Return
    \/ Run_CfRaised
    \/ Run_CfReturn
    \/ ProcessZones

Spec == Init /\ [][Next]_vars

----------------------------------------------------------------------------
(* views.py: DNSZoneRecords.get *)

\* a Python slice seq[start:end] for 0 <= start, 0 <= end
Slice(seq, start, end) ==
    LET lo == IF start < Len(seq) THEN start ELSE Len(seq)
        e  == IF end < Len(seq) THEN end ELSE Len(seq)
        hi == IF e < lo THEN lo ELSE e
    IN  [k \in 1..(hi - lo) |-> seq[lo + k]]

\* lines 65-72: the payload of DNSZoneRecords.get(zone_id) for arguments a
ZoneRecordsGet(st, zone_id, a) ==
    LET records == ListOf(RecordsOf(st, zone_id))
        start_offset == (a.page - 1) * a.count
        end_offset == start_offset + a.count
    IN  [recordCount |-> Len(records),
         records |-> Slice(records, start_offset, end_offset)]

\* lines 60-64: the arguments a request may carry; type defaults to None
ViewArgs ==
    [zone_id : {get_resource_id("axfrz", ZoneA, {})},
     page : 1..MaxViewPage,
     count : 0..MaxViewCount,
     type : {"None"} \cup RdTypes]

\* the stores browsed: zone ZoneA with any of its transfers stored
ViewStores == {StoreOf(<<AxfrZone(ZoneA, t)>>, AXFR_ACCOUNT_NAME) : t \in Transfers(ZoneA, RdTypes)}

InitView ==
    /\ db \in ViewStores
    /\ session = db
    /\ db0 = db
    /\ pc = "view"
    /\ account = AXFR_ACCOUNT_NAME
    /\ zones = <<>>
    /\ existing_zones = {}
    /\ existing_records = {}
    /\ zi = 1
    /\ ops = <<>>
    /\ failed = {}
    /\ call = 1
    /\ faults = 0
    /\ NoListing
    /\ NoRun
    /\ NoView

\* lines 59-72: one GET /api/v1/dns/records/<zone_id>
View_Get ==
    /\ pc \in {"view", "viewed"}
    /\ pc' = "viewed"
    /\ \E a \in ViewArgs :
          /\ args' = a
          /\ view' = ZoneRecordsGet(session, a.zone_id, a)
    /\ UNCHANGED <<db, session, pzVars, listVars, runVars>>

NextView == View_Get

SpecView == InitView /\ [][NextView]_vars

----------------------------------------------------------------------------
(* Properties of process_zones, checked under SpecPZ *)

SnapshotZoneIds == {zones[k].zone_id : k \in 1..Len(zones)}

\* the rows the snapshot zone k asks for
SnapshotRows(k) ==
    {CreateRecord(zones[k].records[j], account, zones[k].zone_id) :
        j \in 1..Len(zones[k].records)}

\* the session writes of the current call that create, add or delete
StagedWrites == SelectSeq(ops, LAMBDA e : e[1] \in {"create", "add", "delete"})

Positions(e) == {i \in 1..Len(ops) : ops[i] = e}

\* C1: Record-set diff.  When process_zones returns (the store raised nothing),
\* every snapshot zone that was already stored holds exactly the snapshot's
\* records, with the snapshot's field values: new ids created and attached,
\* missing ids deleted, common ids kept and updated -- also when a common
\* record's fields changed.
C1_RecordSetDiff ==
    (pc = "done" /\ faults = 0) =>
        \A k \in 1..Len(zones) :
            zones[k].zone_id \in ZoneIds(db0, account) =>
                RecordsOf(db, zones[k].zone_id) = SnapshotRows(k)

\* C2: Idempotent reconciliation.  The second process_zones call with the same
\* snapshot and account stages no creation, no session add and no deletion,
\* and leaves the committed store as the first call left it.
C2_Idempotent ==
    (pc = "done" /\ call = 2 /\ faults = 0) =>
        /\ StagedWrites = <<>>
        /\ db = db0

\* the stored zones of the account that the snapshot omits
OmittedZones == {z \in ZonesOf(db0, account) : z.id \notin SnapshotZoneIds}

\* C3: Zone deletion cascades.  When process_zones returns, every zone that was
\* stored for the account and is absent from the snapshot is gone from the
\* store together with all the records it owned, and each of those records
\* was deleted before the zone itself.
C3_ZoneDeletionCascades ==
    pc = "done" =>
        \A z \in OmittedZones :
            /\ z.id \notin {y.id : y \in db.zones}
            /\ \A r \in RecordsOf(db0, z.id) : r.id \notin {y.id : y \in db.recs}
            /\ \E iz \in Positions(Log("delete", z.id)) :
                 \A r \in RecordsOf(db0, z.id) :
                    \E ir \in Positions(Log("delete", r.id)) : ir < iz

\* an omitted zone owning two or more records has been removed
C3_Witness ==
    /\ pc = "done"
    /\ \E z \in OmittedZones :
         /\ Cardinality(RecordsOf(db0, z.id)) >= 2
         /\ z.id \notin {y.id : y \in db.zones}

\* C4: Per-zone isolation.  An exception in the record phase of snapshot zone
\* X is caught and rolled back; process_zones does not raise because of it,
\* and every later snapshot zone Y whose own record phase did not raise ends
\* with exactly its snapshot records committed.
C4_PerZoneIsolation ==
    /\ failed # {} => pc # "raised"
    /\ (failed # {} /\ pc \in {"update_records", "done"}) => session = db
    /\ pc = "done" =>
         \A x \in failed : \A y \in 1..Len(zones) :
            (y > x /\ y \notin failed) =>
                RecordsOf(db, zones[y].zone_id) = SnapshotRows(y)

\* zone 1 raised, zone 2 was then reconciled and its changes committed
C4_Witness ==
    /\ pc = "done"
    /\ Len(zones) = 2
    /\ failed = {1}
    /\ RecordsOf(db0, zones[2].zone_id) # SnapshotRows(2)
    /\ RecordsOf(db, zones[2].zone_id) = SnapshotRows(2)

\* C9: Zone-level convergence.  When process_zones returns, the zones stored
\* for the account are exactly the snapshot's zones, each carrying the
\* snapshot's properties and tags; a zone that was not stored was created
\* exactly once, a stored one was never re-created, and the stored zones the
\* snapshot omits are gone.
C9_ZoneConvergence ==
    pc = "done" =>
        /\ ZonesOf(db, account) =
              {CreateZone(zones[k], account) : k \in 1..Len(zones)}
        /\ \A k \in 1..Len(zones) :
              Cardinality(Positions(Log("create", zones[k].zone_id))) =
                 IF zones[k].zone_id \in ZoneIds(db0, account) THEN 0 ELSE 1

\* one snapshot zone was created and another, stored one was updated in place
C9_Witness ==
    /\ pc = "done"
    /\ \E k \in 1..Len(zones) : zones[k].zone_id \notin ZoneIds(db0, account)
    /\ \E k \in 1..Len(zones) :
          /\ zones[k].zone_id \in ZoneIds(db0, account)
          /\ CreateZone(zones[k], account) \notin db0.zones
          /\ CreateZone(zones[k], account) \in db.zones

\* the zone-level rows of the account: its zones and the records of the zones
\* the snapshot omits
ZoneLevelRows(st) ==
    [zones |-> ZonesOf(st, account),
     recs  |-> {r \in st.recs : r.account_id = account /\ r.zone \notin SnapshotZoneIds}]

\* the zone-level rows once every phase-1 change of the call is applied
ZoneLevelTarget ==
    [zones |-> {CreateZone(zones[k], account) : k \in 1..Len(zones)},
     recs  |-> {}]

\* C14: Zone-level changes are committed as one unit.  In every committed
\* store state of a process_zones call the zone-level rows of the account are
\* either those of the start of the call (no zone-level change durable) or
\* those with every zone creation, zone update and orphan deletion applied.
C14_ZonePhaseOneCommit ==
    \/ ZoneLevelRows(db) = ZoneLevelRows(db0)
    \/ ZoneLevelRows(db) = ZoneLevelTarget

\* C15: A failed record phase is all-or-nothing.  When process_zones returns,
\* every snapshot zone whose record phase raised has the committed record set
\* it had before its record phase started.
C15_RecordPhaseAllOrNothing ==
    pc = "done" =>
        \A k \in failed :
            RecordsOf(db, zones[k].zone_id) = RecordsOf(db0, zones[k].zone_id)

----------------------------------------------------------------------------
(* Properties of the listings, checked under SpecList *)

RECURSIVE RowsOf(_, _)
\* the raw rows of the first n responses, in the order received
RowsOf(rs, n) == IF n = 0 THEN <<>> ELSE RowsOf(rs, n - 1) \o rs[n].result

AllRows == RowsOf(responses, Len(responses))

Count(s, x) == Cardinality({i \in 1..Len(s) : s[i] = x})

IsSorted(s) == \A i \in 1..Len(s) : \A j \in 1..Len(s) : i < j => ~LexLess(s[j], s[i])

\* the contents of the raw rows named n, in the order received
ContentsNamed(n) ==
    LET rs == SelectSeq(AllRows, LAMBDA r : r.name = n)
    IN  [i \in 1..Len(rs) |-> rs[i].content]

\* C5: Multi-value merge.  Whatever rows the pages of one zone carried,
\* __cloudflare_list_zone_records returns one record per distinct row name,
\* whose value list is sorted and holds the content of every raw row of that
\* name exactly as often as it was received.
C5_MultiValueMerge ==
    pc = "records_listed" =>
        /\ \A i \in 1..Len(result) : \A j \in 1..Len(result) :
              i # j => result[i].name # result[j].name
        /\ {result[i].name : i \in 1..Len(result)} = {r.name : r \in Range(AllRows)}
        /\ \A i \in 1..Len(result) :
              /\ IsSorted(result[i].value)
              /\ Len(result[i].value) = Len(ContentsNamed(result[i].name))
              /\ \A c \in Contents :
                    Count(result[i].value, c) = Count(ContentsNamed(result[i].name), c)

\* two names over two or more pages; the rows of www arrived out of order
C5_Witness ==
    /\ pc = "records_listed"
    /\ Len(requests) >= 2
    /\ Len(result) = 2
    /\ ContentsNamed(<<"www">>) = <<"2.2.2.2", "10.0.0.1">>
    /\ \E i \in 1..Len(result) : result[i].value = <<"10.0.0.1", "2.2.2.2">>

\* every response so far reported total_pages = n
AllReport(n) ==
    \A i \in 1..Len(responses) :
        /\ "total_pages" \in DOMAIN responses[i].result_info
        /\ responses[i].result_info.total_pages = n

\* every raw row received is in the returned result
ResultHoldsAllRows ==
    /\ pc = "zones_listed" => result = AllRows
    /\ pc = "records_listed" =>
          \A r \in Range(AllRows) :
             \E i \in 1..Len(result) :
                result[i].name = r.name /\ r.content \in Range(result[i].value)

\* C6: Pagination exhaustion.  Pages are requested as 1, 2, 3, ... in order;
\* a listing whose responses all report total_pages = N >= 1 returns after
\* exactly N requests with the entries of all N pages; a first response
\* without total_pages ends the listing after one request.
C6_PaginationExhaustion ==
    /\ requests = [i \in 1..Len(requests) |-> i]
    /\ \A n \in 1..MaxPages :
          AllReport(n) =>
             /\ Len(requests) <= n
             /\ pc \in {"zones_listed", "records_listed"} =>
                   /\ Len(requests) = n
                   /\ Len(responses) = n
                   /\ ResultHoldsAllRows
    /\ (Len(responses) >= 1 /\ "total_pages" \notin DOMAIN responses[1].result_info) =>
          /\ pc \in {"zones_listed", "records_listed"}
          /\ requests = <<1>>
          /\ ResultHoldsAllRows

\* three pages, each reporting total_pages = 3, all of them in the result
C6_Witness ==
    /\ pc = "zones_listed"
    /\ AllReport(3)
    /\ requests = <<1, 2, 3>>
    /\ \A i \in 1..3 : responses[i].result # <<>>
    /\ Len(result) >= 3

\* a second fetch of the same zone: the raw rows it receives, in order
AltFetches ==
    {<<>>} \cup {<<a>> : a \in RawRows} \cup {<<a, b>> : a \in RawRows, b \in RawRows}

\* the first raw row named n of a fetch
FirstRowOf(rows, n) == rows[CHOOSE k \in 1..Len(rows) :
                              /\ rows[k].name = n
                              /\ \A j \in 1..(k - 1) : rows[j].name # n]

RowNames(rows) == {rows[k].name : k \in 1..Len(rows)}

\* the merged record named n of a listing
RecordNamed(records, n) == CHOOSE r \in Range(records) : r.name = n

\* the id get_cloudflare_records gives the record named n of a listing of ZobjC
IdFor(records, n) == CfRecord(ZobjC, RecordNamed(records, n)).id

\* the names two fetches share with an identical first raw row
SameFirstRow(rows, alt) ==
    {n \in RowNames(rows) \cap RowNames(alt) : FirstRowOf(rows, n) = FirstRowOf(alt, n)}

\* C16 as stated: the id reflects only the first-seen raw row.  Two fetches of
\* one zone whose first raw row for a name is identical give the record of
\* that name the same id, whatever later rows were merged into it.
C16_IdFromFirstRow ==
    pc = "records_listed" =>
        \A alt \in AltFetches : \A n \in SameFirstRow(AllRows, alt) :
            IdFor(result, n) = IdFor(MergeRows(<<>>, alt, 1), n)

\* C16 amended: the id reflects the merged record.  Two fetches of one zone
\* whose first raw row for a name is identical give the record of that name
\* the same id exactly when the sorted lists of the contents merged into that
\* name are equal.
C16_IdFromMergedRecord ==
    pc = "records_listed" =>
        \A alt \in AltFetches : \A n \in SameFirstRow(AllRows, alt) :
            (IdFor(result, n) = IdFor(MergeRows(<<>>, alt, 1), n))
               <=> (RecordNamed(result, n).value =
                       RecordNamed(MergeRows(<<>>, alt, 1), n).value)

\* a fetch over two pages merged two rows into www; a fetch of the first row
\* alone gives www another id, a fetch of the same rows in one page the same
C16_Witness ==
    /\ pc = "records_listed"
    /\ Len(requests) = 2
    /\ AllRows = <<[name |-> <<"www">>, content |-> "2.2.2.2", type |-> "A"],
                   [name |-> <<"www">>, content |-> "10.0.0.1", type |-> "A"]>>
    /\ IdFor(result, <<"www">>) # IdFor(MergeRows(<<>>, <<AllRows[1]>>, 1), <<"www">>)
    /\ IdFor(result, <<"www">>) = IdFor(MergeRows(<<>>, AllRows, 1), <<"www">>)

\* the largest total_pages the responses so far reported (0 when none did)
MaxTotalPages ==
    LET ts == {responses[i].result_info.total_pages :
                 i \in {j \in 1..Len(responses) :
                           "total_pages" \in DOMAIN responses[j].result_info}}
    IN  IF ts = {} THEN 0 ELSE CHOOSE t \in ts : \A u \in ts : u <= t

\* C17: Pagination terminates.  Stated as the bound that makes it so: when
\* every response carried a non-negative total_pages, a listing never issues
\* more requests than the largest total_pages reported (one request when that
\* is 0); so a server that keeps reporting total_pages = 0, or a total_pages
\* below the page just requested, does not keep the loop running.
C17_PaginationTerminates ==
    (\A i \in 1..Len(responses) : "total_pages" \in DOMAIN responses[i].result_info)
        => Len(requests) <= (IF MaxTotalPages < 1 THEN 1 ELSE MaxTotalPages)

\* C19: Merged records are type-consistent.  Every record the record listing
\* returns has the type of every raw row merged into its value list.
C19_TypeConsistent ==
    pc = "records_listed" =>
        \A i \in 1..Len(result) : \A k \in 1..Len(AllRows) :
            (AllRows[k].name = result[i].name) => AllRows[k].type = result[i].type

----------------------------------------------------------------------------
(* Properties of run() and the two adapters, checked under Spec *)

\* C7: Empty-zone suppression.  Every zone in the list an adapter is building
\* or has handed to process_zones has at least one record, and no zone whose
\* transfer or merged record listing came back with zero records is in it.
C7_EmptyZoneSuppression ==
    \A z \in Range(zones) \cup Range(out) :
        /\ Len(z.records) > 0
        /\ z.zone_id \notin empties

\* process_zones runs on the paginated-API snapshot after both adapters met a
\* zone without records and kept another
C7_Witness ==
    /\ pc = "update_zones"
    /\ account = CF_ACCOUNT_NAME
    /\ Len(zones) > 0
    /\ get_resource_id("axfrz", ZoneA, {}) \in empties
    /\ get_resource_id("cfz", ZobjC.name, {}) \in empties
    /\ "axfr_pz_returned" \in events

\* the zone-transfer half of run() ended with an exception
AxfrRaised == "axfr_fetch_raised" \in events \/ "axfr_pz_raised" \in events

\* C8: Source isolation in the orchestrator.  No exception leaves run(), and
\* when run() ends with both sources enabled after the zone-transfer fetch or
\* the reconciliation of the zone-transfer account raised, the paginated-API
\* snapshot was fetched and, unless that fetch itself raised, process_zones was
\* called with it for the paginated-API account.
C8_SourceIsolation ==
    /\ pc # "run_raised"
    /\ (pc = "run_end" /\ axfr_enabled /\ cloudflare_enabled /\ AxfrRaised)
          => /\ "cf_fetch" \in events
             /\ "cf_pz" \in events \/ "cf_fetch_raised" \in events

\* the zone-transfer fetch raised and the paginated-API account was reconciled
\* with a change to the store
C8_Witness ==
    /\ pc = "run_end"
    /\ axfr_enabled /\ cloudflare_enabled
    /\ "axfr_fetch_raised" \in events
    /\ "cf_pz_returned" \in events
    /\ db # run0

\* the zone row and the record rows a store holds for the zone named name
StoredFor(st, name) ==
    LET zid == get_resource_id("cfz", name, {})
    IN  [zones |-> {z \in st.zones : z.id = zid}, recs |-> RecordsOf(st, zid)]

\* C10: Failure leaves only stale data.  When run() has completed, every zone
\* whose record listing failed with CloudFlareError and was skipped is stored
\* with the same zone row and the same record rows as before the run.
C10_FailureLeavesStale ==
    pc = "run_end" =>
        \A name \in skipped : StoredFor(db, name) = StoredFor(run0, name)

\* the zone row with id zid and the record rows attached to it
StoredZone(st, zid) ==
    [zones |-> {z \in st.zones : z.id = zid}, recs |-> RecordsOf(st, zid)]

\* the ids of the configured zone-transfer domains
AxfrZoneIds == {get_resource_id("axfrz", axfr_domains[k], {}) : k \in 1..Len(axfr_domains)}

\* C11: An empty transfer is "nothing observed".  Once the reconciliation of
\* the zone-transfer account has returned, every zone whose transfer came back
\* with zero records is stored with the same zone row and the same record rows
\* as before the run.
C11_EmptyTransferKeeps ==
    "axfr_pz_returned" \in events =>
        \A zid \in AxfrZoneIds \cap empties : StoredZone(db, zid) = StoredZone(run0, zid)

\* the zone rows and record rows a store holds for an account
AccountRows(st, acct) ==
    [zones |-> ZonesOf(st, acct), recs |-> {r \in st.recs : r.account_id = acct}]

\* C12: The zone-transfer adapter never partially succeeds.  In a run where
\* get_axfr_records raised, process_zones is never called for the zone-transfer
\* account (so no list of the zones transferred so far reaches it), and the
\* zones and records stored for that account stay as they were before the run.
C12_NoPartialSnapshot ==
    "axfr_fetch_raised" \in events =>
        /\ "axfr_pz" \notin events
        /\ AccountRows(db, AXFR_ACCOUNT_NAME) = AccountRows(run0, AXFR_ACCOUNT_NAME)
        /\ AccountRows(session, AXFR_ACCOUNT_NAME) = AccountRows(run0, AXFR_ACCOUNT_NAME)

\* the transfer raised in a run over a store holding zone-transfer zones, and
\* the run went on to change the store for the other account
C12_Witness ==
    /\ pc = "run_end"
    /\ "axfr_fetch_raised" \in events
    /\ ZonesOf(run0, AXFR_ACCOUNT_NAME) # {}
    /\ "cf_pz_returned" \in events
    /\ AccountRows(db, CF_ACCOUNT_NAME) # AccountRows(run0, CF_ACCOUNT_NAME)

----------------------------------------------------------------------------
(* Properties of the browsing view, checked under SpecView *)

\* C13: Zone-records browsing.  The response to a request with page p and
\* count c for an existing zone holds the zone's stored records at offsets
\* [(p-1)*c, p*c) and recordCount equal to the number of records stored for
\* the zone, and when the request names a type every returned record has it.
C13_ZoneRecordsBrowsing ==
    pc = "viewed" =>
        LET records == ListOf(RecordsOf(db, args.zone_id))
        IN  /\ view.recordCount = Len(records)
            /\ view.records = Slice(records, (args.page - 1) * args.count,
                                    args.page * args.count)
            /\ args.type # "None" =>
                  \A k \in 1..Len(view.records) : view.records[k].type = args.type

\* the rows a store holds for the accounts other than the one being reconciled
OtherRows(st) ==
    [zones |-> {z \in st.zones : z.account_id # account},
     recs  |-> {r \in st.recs : r.account_id # account}]

\* C18: Account frame.  Whatever a process_zones call commits, the zones and
\* records stored for every other account are those stored when the call
\* started.
C18_AccountFrame == OtherRows(db) = OtherRows(db0)

\* C20: No staged write leaks across sources.  When run() has ended after the
\* reconciliation of the zone-transfer account raised in its zone phase with
\* zone creations or updates staged and not committed, the committed zones of
\* the zone-transfer account are those of the start of the run.
C20_NoStagedLeak ==
    (pc = "run_end" /\ "axfr_zone_writes_pending" \in events) =>
        ZonesOf(db, AXFR_ACCOUNT_NAME) = ZonesOf(run0, AXFR_ACCOUNT_NAME)

====
